---- MODULE Spec2Model ----
(***************************************************************************)
(* SwissJS core renderer (packages/core/src/renderer/renderer.ts): the     *)
(* VDOM differ, the keyed child reconciler, the property reconciler and    *)
(* the hydration entry point, over an explicit model of the host DOM.      *)
(*                                                                         *)
(* The live DOM is a heap of nodes; a node is its index in `nodes`.        *)
(* Node 1 is the container.  Every renderer function is an operator that   *)
(* takes the world w (heap, the two WeakMaps, the log of host operations,  *)
(* the exception in flight) and returns the world after the call.          *)
(*                                                                         *)
(* Beside the renderer: the SwissComponent instances (component.ts) with   *)
(* their error boundaries, mounting and update scheduling, the Effect      *)
(* class (reactivity/effect.ts) and reactive/watch (reactivity/            *)
(* reactive.ts).                                                           *)
(***************************************************************************)
EXTENDS Integers, Sequences, FiniteSets, TLC

VARIABLES nodes, vnodeMetadata, eventListeners, assigned, heldDom, ops, prev, last,
          inst, frames, requested, eff, reactiveObj

vars == <<nodes, vnodeMetadata, eventListeners, assigned, heldDom, ops, prev, last,
          inst, frames, requested, eff, reactiveObj>>

(***************************************************************************)
(* Values of the description language.                                     *)
(***************************************************************************)
Undef == "undefined"
NoKey == "undefined"
NoErr == "none"

Handlers == {"f1", "f2", "reload"}
PropOrder == <<"onClick", "className", "style", "id", "data-x">>
PropKeys == {PropOrder[i] : i \in 1..Len(PropOrder)}
StyleProps == {"color", "width"}

NoProps ==
  ("onClick" :> Undef) @@ ("className" :> Undef) @@ ("style" :> Undef) @@
  ("id" :> Undef) @@ ("data-x" :> Undef)
NoVNode == [k |-> "none", tag |-> "", key |-> NoKey, props |-> NoProps, kids |-> <<>>, text |-> ""]

VText(s) == [k |-> "text", tag |-> "", key |-> NoKey, props |-> NoProps, kids |-> <<>>, text |-> s]
VElem(tag, key, props, kids) == [k |-> "elem", tag |-> tag, key |-> key, props |-> props, kids |-> kids, text |-> ""]
VComp(type, key, props, kids) == [k |-> "comp", tag |-> type, key |-> key, props |-> props, kids |-> kids, text |-> ""]

isTextVNode(vnode) == vnode.k = "text"
isElementVNode(vnode) == vnode.k = "elem"
isComponentVNode(vnode) == vnode.k = "comp"
isEventProp(name) == name \in {"onClick"}
isClassComponent(type) == type \in {"Cls", "Boom", "Bnd"}

IsFunction(v) == v \in Handlers

(***************************************************************************)
(* The host DOM.                                                           *)
(***************************************************************************)
NoMap == [t |-> "absent", click |-> Undef]
EmptyMap == [t |-> "map", click |-> Undef]
NoStyle == [color |-> "", width |-> ""]

DomNode(kind, tag, text) ==
  [kind |-> kind, tag |-> tag, text |-> text, kids |-> <<>>, on |-> <<>>,
   className |-> "", style |-> NoStyle, id |-> "", datax |-> Undef,
   island |-> Undef, marker |-> "", hydrated |-> FALSE]

Container == 1

Op(o, n, name, val, x) == [op |-> o, node |-> n, name |-> name, val |-> val, other |-> x]
Log(w, o) == [w EXCEPT !.ops = Append(@, o)]
Throw(w, e) == [w EXCEPT !.err = e]

HostOps == {"createElement", "createTextNode", "setText", "addEventListener",
            "removeEventListener", "setAttribute", "removeAttribute", "setProperty",
            "setClassName", "setStyle", "insert", "replaceChild", "removeChild", "clear"}

InSeq(x, s) == \E i \in 1..Len(s) : s[i] = x
SeqWithout(s, x) == SelectSeq(s, LAMBDA y : y # x)
IndexOf(s, x) == CHOOSE i \in 1..Len(s) : s[i] = x /\ \A j \in 1..(i-1) : s[j] # x
InsertAt(s, i, x) == SubSeq(s, 1, i-1) \o <<x>> \o SubSeq(s, i, Len(s))

parentNode(w, n) ==
  IF \E p \in 1..Len(w.nodes) : InSeq(n, w.nodes[p].kids)
  THEN CHOOSE p \in 1..Len(w.nodes) : InSeq(n, w.nodes[p].kids)
  ELSE 0

Detach(w, n) ==
  LET p == parentNode(w, n) IN
  IF p = 0 THEN w ELSE [w EXCEPT !.nodes[p].kids = SeqWithout(@, n)]

NewNode(w, rec, o) ==
  LET n == Len(w.nodes) + 1 IN
  [w EXCEPT !.nodes = Append(@, rec),
            !.vnodeMetadata = Append(@, NoVNode),
            !.eventListeners = Append(@, NoMap),
            !.assigned = Append(@, Undef),
            !.ops = Append(@, Op(o, n, rec.tag, rec.text, 0)),
            !.ret = n]

\* document.createElement throws InvalidCharacterError for an empty tag name
createElement(w, tag) ==
  IF tag = "" THEN Throw(w, "InvalidCharacterError")
  ELSE NewNode(w, DomNode("elem", tag, ""), "createElement")

createTextNodeDOM(w, s) == NewNode(w, DomNode("text", "", s), "createTextNode")

appendChild(w, p, c) ==
  LET w1 == Detach(w, c) IN
  Log([w1 EXCEPT !.nodes[p].kids = Append(@, c)], Op("insert", p, "", "", c))

insertBefore(w, p, c, ref) ==
  LET w1 == Detach(w, c)
      i == IndexOf(w1.nodes[p].kids, ref) IN
  Log([w1 EXCEPT !.nodes[p].kids = InsertAt(@, i, c)], Op("insert", p, "", "", c))

\* NotFoundError when the node to remove is no child of p
removeChild(w, p, c) ==
  IF ~InSeq(c, w.nodes[p].kids) THEN Throw(w, "NotFoundError")
  ELSE Log([w EXCEPT !.nodes[p].kids = SeqWithout(@, c)], Op("removeChild", p, "", "", c))

\* the log entry names the node replaced (in name) and the node put in its place
replaceChild(w, p, new, old) ==
  IF ~InSeq(old, w.nodes[p].kids) THEN Throw(w, "NotFoundError")
  ELSE LET w1 == Detach(w, new)
           i == IndexOf(w1.nodes[p].kids, old) IN
       Log([w1 EXCEPT !.nodes[p].kids = [@ EXCEPT ![i] = new]],
           Op("replaceChild", p, ToString(old), "", new))

\* container.innerHTML = ''
clearChildren(w, p) ==
  Log([w EXCEPT !.nodes[p].kids = <<>>], Op("clear", p, "", "", 0))

addEventListener(w, n, ev, h) ==
  Log([w EXCEPT !.nodes[n].on = IF InSeq(h, @) THEN @ ELSE Append(@, h)],
      Op("addEventListener", n, ev, h, 0))

removeEventListener(w, n, ev, h) ==
  Log([w EXCEPT !.nodes[n].on = SeqWithout(@, h)], Op("removeEventListener", n, ev, h, 0))

(***************************************************************************)
(* Property values are strings.  A class list given as an array or as a    *)
(* map of flags, and a style given as an object, are named by a string     *)
(* and looked up here; two equal names are the same JavaScript reference.  *)
(***************************************************************************)
ClassArrays == {"[a,b]"}
ClassFlags == {"{a:1,b:0}"}
StyleObjects == {"{color:red}", "{color:red;width:1}"}

IsObject(v) == v \in StyleObjects \cup ClassFlags \cup ClassArrays

StyleObj(v) ==
  CASE v = "{color:red}" -> [color |-> "red", width |-> Undef]
    [] v = "{color:red;width:1}" -> [color |-> "red", width |-> "1"]
    [] OTHER -> [color |-> Undef, width |-> Undef]

\* what the browser makes of element.style.cssText = s
CssParse(s) ==
  CASE s = "color:blue" -> [color |-> "blue", width |-> ""]
    [] s = "border: 1px solid red; padding: 10px; color: red;" -> [color |-> "red", width |-> ""]
    [] s = "width:2" -> [color |-> "", width |-> "2"]
    [] OTHER -> NoStyle

ClassString(v) ==
  CASE v = "[a,b]" -> "a b"
    [] v = "{a:1,b:0}" -> "a"
    [] v = Undef -> ""
    [] v = "null" -> ""
    [] OTHER -> v

updateEventListenerNoRemove(w, element, key, oldHandler, newHandler) ==
  LET eventName == "click"
      w1 == IF w.eventListeners[element].t = "absent"
            THEN [w EXCEPT !.eventListeners[element] = EmptyMap] ELSE w
  IN IF IsFunction(newHandler)
     THEN [addEventListener(w1, element, eventName, newHandler)
             EXCEPT !.eventListeners[element].click = newHandler]
     ELSE [w1 EXCEPT !.eventListeners[element].click = Undef]

updateEventListener(w, element, key, oldHandler, newHandler) ==
  LET eventName == "click"
      w1 == IF w.eventListeners[element].t = "absent"
            THEN [w EXCEPT !.eventListeners[element] = EmptyMap] ELSE w
      existingHandler == w1.eventListeners[element].click
      w2 == IF existingHandler # Undef
            THEN removeEventListener(w1, element, eventName, existingHandler) ELSE w1
  IN IF IsFunction(newHandler)
     THEN [addEventListener(w2, element, eventName, newHandler)
             EXCEPT !.eventListeners[element].click = newHandler]
     ELSE [w2 EXCEPT !.eventListeners[element].click = Undef]

updateClassName(w, element, value) ==
  Log([w EXCEPT !.nodes[element].className = ClassString(value)],
      Op("setClassName", element, "className", ClassString(value), 0))

RECURSIVE ClearOldStyles(_, _, _, _, _)
ClearOldStyles(w, element, todo, oldValue, newValue) ==
  IF todo = {} THEN w
  ELSE LET prop == CHOOSE p \in todo : TRUE
           gone == newValue = Undef \/ newValue = "null"
                   \/ ~(newValue \in StyleObjects) \/ StyleObj(newValue)[prop] = Undef
           w1 == IF StyleObj(oldValue)[prop] # Undef /\ gone
                 THEN Log([w EXCEPT !.nodes[element].style[prop] = ""],
                          Op("setStyle", element, prop, "", 0))
                 ELSE w
       IN ClearOldStyles(w1, element, todo \ {prop}, oldValue, newValue)

RECURSIVE AssignStyles(_, _, _, _)
AssignStyles(w, element, todo, newValue) ==
  IF todo = {} THEN w
  ELSE LET prop == CHOOSE p \in todo : TRUE
           v == StyleObj(newValue)[prop]
           w1 == IF v # Undef
                 THEN Log([w EXCEPT !.nodes[element].style[prop] = v],
                          Op("setStyle", element, prop, v, 0))
                 ELSE w
       IN AssignStyles(w1, element, todo \ {prop}, newValue)

updateStyle(w, element, name, oldValue, newValue) ==
  LET w1 == IF oldValue \in StyleObjects
            THEN ClearOldStyles(w, element, StyleProps, oldValue, newValue) ELSE w
  IN IF newValue \in StyleObjects THEN AssignStyles(w1, element, StyleProps, newValue)
     ELSE IF newValue # Undef /\ newValue # "null" /\ ~IsObject(newValue)
     THEN Log([w1 EXCEPT !.nodes[element].style = CssParse(newValue)],
              Op("setStyle", element, "cssText", newValue, 0))
     ELSE w1

\* element[name] = value: the id field holds the string made of the value
updateProperty(w, element, name, oldValue, newValue) ==
  IF oldValue # newValue
  THEN LET v == IF newValue = "null" THEN "" ELSE newValue IN
       Log([w EXCEPT !.nodes[element].id = v], Op("setProperty", element, name, v, 0))
  ELSE w

updateAttribute(w, element, key, value) ==
  IF value = Undef \/ value = "null" \/ value = "false"
  THEN Log([w EXCEPT !.nodes[element].datax = Undef], Op("removeAttribute", element, key, "", 0))
  ELSE LET v == IF value = "true" THEN "" ELSE value IN
       Log([w EXCEPT !.nodes[element].datax = v], Op("setAttribute", element, key, v, 0))

\* one iteration of allKeys.forEach, with its try/catch
ReconcileOneProp(w, element, key, oldProps, newProps) ==
  LET oldValue == oldProps[key]
      newValue == newProps[key]
      w1 == IF key = "onClick" THEN updateEventListener(w, element, key, oldValue, newValue)
            ELSE IF key = "className" THEN updateClassName(w, element, newValue)
            ELSE IF key = "style" THEN updateStyle(w, element, key, oldValue, newValue)
            ELSE IF key = "id" /\ ~isEventProp(key)
                 THEN updateProperty(w, element, key, oldValue, newValue)
            ELSE updateAttribute(w, element, key, newValue)
  IN IF oldValue = newValue THEN w
     ELSE IF w1.err # NoErr
          THEN Log([w1 EXCEPT !.err = NoErr], Op("warn", element, key, "Property update error", 0))
          ELSE w1

RECURSIVE ReconcilePropsFrom(_, _, _, _, _)
ReconcilePropsFrom(w, element, i, oldProps, newProps) ==
  IF i > Len(PropOrder) THEN w
  ELSE ReconcilePropsFrom(ReconcileOneProp(w, element, PropOrder[i], oldProps, newProps),
                          element, i + 1, oldProps, newProps)

reconcileProps(w, element, oldProps, newProps) ==
  ReconcilePropsFrom([w EXCEPT !.assigned[element] = newProps["onClick"]],
                     element, 1, oldProps, newProps)

(***************************************************************************)
(* Keys and in-place compatibility.                                        *)
(***************************************************************************)
ResKey(t, i, s) == [t |-> t, i |-> i, s |-> s]

getKeyIndexOnly(vnode, index) ==
  IF isTextVNode(vnode) THEN ResKey("text", index, "") ELSE ResKey("index", index, "")

getKey(vnode, index) ==
  IF isTextVNode(vnode) THEN ResKey("text", index, "")
  ELSE IF isElementVNode(vnode) /\ vnode.key # NoKey THEN ResKey("key", 0, vnode.key)
  ELSE ResKey("index", index, "")

canUpdateInPlace(w, dom, newVNode, oldVNode) ==
  IF isTextVNode(newVNode) THEN w.nodes[dom].kind = "text"
  ELSE IF isElementVNode(newVNode)
  THEN IF w.nodes[dom].kind # "elem" THEN FALSE
       ELSE IF w.nodes[dom].tag # newVNode.tag THEN FALSE
       ELSE LET oldKey == IF isElementVNode(oldVNode) THEN oldVNode.key ELSE NoKey
                newKey == newVNode.key
            IN IF oldKey # NoKey /\ newKey # NoKey THEN oldKey = newKey ELSE TRUE
  ELSE FALSE

(***************************************************************************)
(* cleanupNode: the node first, then its children.                         *)
(***************************************************************************)
RECURSIVE RemoveListeners(_, _, _)
RemoveListeners(w, element, hs) ==
  IF hs = <<>> THEN w
  ELSE RemoveListeners(removeEventListener(w, element, "click", Head(hs)), element, Tail(hs))

RECURSIVE cleanupNode(_, _)
RECURSIVE CleanupAll(_, _)
cleanupNode(w, node) ==
  LET listeners == w.eventListeners[node]
      w1 == IF w.nodes[node].kind = "elem" /\ listeners.t # "absent"
            THEN [RemoveListeners(w, node,
                     IF listeners.click = Undef THEN <<>> ELSE <<listeners.click>>)
                   EXCEPT !.eventListeners[node] = NoMap]
            ELSE w
      w2 == Log([w1 EXCEPT !.vnodeMetadata[node] = NoVNode],
                Op("delete", node, "vnodeMetadata", "", 0))
  IN CleanupAll(w2, w2.nodes[node].kids)

CleanupAll(w, ns) ==
  IF ns = <<>> THEN w ELSE CleanupAll(cleanupNode(w, Head(ns)), Tail(ns))

(***************************************************************************)
(* Components.  The component types of the model: Cls, a class component   *)
(* that renders a section carrying its props; Fn, a function component     *)
(* that renders a text; Boom, a class component whose render throws.       *)
(***************************************************************************)
createErrorBoundary(message) ==
  VElem("div", NoKey, [NoProps EXCEPT !["className"] = "error-boundary"],
        << VElem("span", NoKey, NoProps, << VText("Error: " \o message) >>),
           VElem("button", NoKey,
                 [NoProps EXCEPT !["onClick"] = "reload", !["className"] = "retry-button"],
                 << VText("Retry") >>) >>)

ComponentOutput(type, props, children) ==
  IF type = "Cls" THEN VElem("section", NoKey, props, <<>>)
  ELSE IF type = "Bnd"
  THEN VElem("article", NoKey, NoProps,
             << VElem("h1", NoKey, NoProps, <<>>), VComp("Boom", NoKey, NoProps, <<>>) >>)
  ELSE VText("fn")

renderComponent(w, vnode) ==
  LET Component == vnode.tag
      w1 == IF isClassComponent(Component)
            THEN Log(Log(w, Op("new", 0, Component, vnode.props["id"], 0)),
                     Op("render", 0, Component, vnode.props["id"], 0))
            ELSE Log(w, Op("call", 0, Component, vnode.props["id"], 0))
  IN IF Component = "Boom"
     THEN [Log(w1, Op("error", 0, Component, "Component rendering error", 0))
            EXCEPT !.rv = createErrorBoundary("Component error: boom")]
     ELSE [w1 EXCEPT !.rv = ComponentOutput(Component, vnode.props, vnode.kids)]

(***************************************************************************)
(* DOM construction and patching.  An exception in flight is w.err; the    *)
(* statements after a throwing call are skipped with Bind.                 *)
(***************************************************************************)
Bind(w, F(_)) == IF w.err # NoErr THEN w ELSE F(w)

SetMeta(w, node, vnode) == [w EXCEPT !.vnodeMetadata[node] = vnode]
SetRet(w, n) == [w EXCEPT !.ret = n]

\* the catch blocks of createDOMNode, updateDOMNode and renderToDOM
Rethrow(w, what) ==
  IF w.err = NoErr THEN w
  ELSE [Log(w, Op("error", 0, what, w.err, 0)) EXCEPT !.err = "DiffingError"]

CreatedText(w, vnode) == SetMeta(w, w.ret, vnode)
createTextNode(w, vnode) == CreatedText(createTextNodeDOM(w, vnode.text), vnode)

IsObjectVNode(vnode) == ~isTextVNode(vnode)

RECURSIVE createDOMNode(_, _)
RECURSIVE createElementNode(_, _)
RECURSIVE CreateChildren(_, _, _)
RECURSIVE updateDOMNode(_, _, _)
RECURSIVE updateElementNode(_, _, _, _)
RECURSIVE updateComponentNode(_, _, _, _)
RECURSIVE reconcileChildren(_, _, _, _)
RECURSIVE FirstPass(_, _, _, _, _, _)

createDOMNode(w, vnode) ==
  Rethrow(
    IF isTextVNode(vnode) THEN createTextNode(w, vnode)
    ELSE IF isElementVNode(vnode) THEN createElementNode(w, vnode)
    ELSE IF isComponentVNode(vnode)
    THEN Bind(renderComponent(w, vnode), LAMBDA r : createDOMNode(r, r.rv))
    ELSE Throw(w, "Unsupported VNode type"),
    "DOM creation error")

CreateChildren(w, element, children) ==
  IF children = <<>> \/ w.err # NoErr THEN w
  ELSE Bind(createDOMNode(w, Head(children)),
            LAMBDA c : CreateChildren(appendChild(c, element, c.ret), element, Tail(children)))

createElementNode(w, vnode) ==
  Bind(createElement(w, vnode.tag),
       LAMBDA e : SetRet(CreateChildren(
                           reconcileProps(SetMeta(e, e.ret, vnode), e.ret, NoProps, vnode.props),
                           e.ret, vnode.kids),
                         e.ret))

updateTextNode(w, dom, vnode) ==
  IF w.nodes[dom].text # vnode.text
  THEN Log([w EXCEPT !.nodes[dom].text = vnode.text], Op("setText", dom, "", vnode.text, 0))
  ELSE w

\* the end of updateDOMNode's try block, or its catch block
UpdatedDOMNode(w, dom, vnode) ==
  IF w.err # NoErr THEN Rethrow(w, "DOM update error") ELSE SetMeta(w, dom, vnode)

updateDOMNode(w, dom, vnode) ==
  UpdatedDOMNode(
    IF isTextVNode(vnode) THEN updateTextNode(w, dom, vnode)
    ELSE IF isElementVNode(vnode)
         THEN updateElementNode(w, dom, vnode, w.vnodeMetadata[dom])
    ELSE IF isComponentVNode(vnode)
         THEN updateComponentNode(w, dom, vnode, w.vnodeMetadata[dom])
    ELSE w,
    dom, vnode)

updateElementNode(w, dom, vnode, oldVNode) ==
  reconcileChildren(
    reconcileProps(w, dom,
                   IF oldVNode.k # "none" /\ isElementVNode(oldVNode)
                   THEN oldVNode.props ELSE NoProps,
                   vnode.props),
    dom,
    IF oldVNode.k # "none" /\ isElementVNode(oldVNode) THEN oldVNode.kids ELSE <<>>,
    vnode.kids)

ReplaceOptional(w, p, newDom, dom) == IF p = 0 THEN w ELSE replaceChild(w, p, newDom, dom)

\* dom.parentNode?.replaceChild(newDom, dom); cleanupNode(dom)
ReplaceAndCleanup(w, dom) ==
  Bind(ReplaceOptional(w, parentNode(w, dom), w.ret, dom), LAMBDA r : cleanupNode(r, dom))

updateComponentNode(w, dom, vnode, oldVNode) ==
  IF oldVNode.k # "none" /\ isComponentVNode(oldVNode) /\ oldVNode.tag = vnode.tag
  THEN Bind(renderComponent(w, vnode),
            LAMBDA r : IF canUpdateInPlace(r, dom, r.rv, r.vnodeMetadata[dom])
                       THEN updateDOMNode(r, dom, r.rv)
                       ELSE Bind(createDOMNode(r, r.rv), LAMBDA c : ReplaceAndCleanup(c, dom)))
  ELSE Bind(renderComponent(w, vnode),
            LAMBDA r : Bind(createDOMNode(r, r.rv), LAMBDA c : ReplaceAndCleanup(c, dom)))

\* oldKeyMap.get(key): Map.set keeps the entry written last
OldEntry(oldChildren, oldChildNodes, key) ==
  LET S == {i \in 1..Len(oldChildren) :
              i <= Len(oldChildNodes) /\ getKey(oldChildren[i], i - 1) = key}
  IN IF S = {} THEN 0 ELSE CHOOSE i \in S : \A j \in S : j <= i

\* processedNodes.add(dom); newDoms.push(dom)
Processed(w, dom) ==
  [w EXCEPT !.processedNodes = @ \cup {dom}, !.newDoms = Append(@, dom)]
Pushed(w, dom) == [w EXCEPT !.newDoms = Append(@, dom)]

\* the first pass of reconcileChildren, from newIndex on
FirstPass(w, parent, oldChildren, oldChildNodes, newChildren, newIndex) ==
  IF newIndex > Len(newChildren) \/ w.err # NoErr THEN w
  ELSE FirstPass(
         LET newVNode == newChildren[newIndex]
             oldEntry == OldEntry(oldChildren, oldChildNodes, getKey(newVNode, newIndex - 1))
         IN IF oldEntry # 0
            THEN IF canUpdateInPlace(w, oldChildNodes[oldEntry], newVNode, oldChildren[oldEntry])
                 THEN Bind(updateDOMNode(w, oldChildNodes[oldEntry], newVNode),
                           LAMBDA u : Processed(u, oldChildNodes[oldEntry]))
                 ELSE Bind(createDOMNode(w, newVNode),
                           LAMBDA c : Bind(replaceChild(c, parent, c.ret, oldChildNodes[oldEntry]),
                                           LAMBDA r : Processed(r, c.ret)))
            ELSE Bind(createDOMNode(w, newVNode), LAMBDA c : Pushed(c, c.ret)),
         parent, oldChildren, oldChildNodes, newChildren, newIndex + 1)

RECURSIVE SecondPass(_, _, _, _)
SecondPass(w, parent, newDoms, newIndex) ==
  IF newIndex > Len(newDoms) \/ w.err # NoErr THEN w
  ELSE LET dom == newDoms[newIndex]
           cur == w.nodes[parent].kids
       IN SecondPass(
            IF newIndex <= Len(cur) /\ cur[newIndex] = dom THEN w
            ELSE IF newIndex <= Len(cur) THEN insertBefore(w, parent, dom, cur[newIndex])
            ELSE appendChild(w, parent, dom),
            parent, newDoms, newIndex + 1)

RECURSIVE RemoveLeftoverNoCleanup(_, _, _, _)
RemoveLeftoverNoCleanup(w, parent, oldChildNodes, processedNodes) ==
  IF oldChildNodes = <<>> \/ w.err # NoErr THEN w
  ELSE RemoveLeftoverNoCleanup(
         IF Head(oldChildNodes) \in processedNodes THEN w
         ELSE removeChild(w, parent, Head(oldChildNodes)),
         parent, Tail(oldChildNodes), processedNodes)

RECURSIVE RemoveLeftover(_, _, _, _)
RemoveLeftover(w, parent, oldChildNodes, processedNodes) ==
  IF oldChildNodes = <<>> \/ w.err # NoErr THEN w
  ELSE RemoveLeftover(
         IF Head(oldChildNodes) \in processedNodes THEN w
         ELSE removeChild(cleanupNode(w, Head(oldChildNodes)), parent, Head(oldChildNodes)),
         parent, Tail(oldChildNodes), processedNodes)

\* the second pass and the removal of the leftover nodes; saved holds the
\* locals of the caller's own reconcileChildren frame
AfterFirstPass(w, parent, oldChildNodes, saved) ==
  [RemoveLeftover(SecondPass(w, parent, w.newDoms, 1), parent, oldChildNodes, w.processedNodes)
     EXCEPT !.processedNodes = saved.processedNodes, !.newDoms = saved.newDoms]

reconcileChildren(w, parent, oldChildren, newChildren) ==
  AfterFirstPass(
    FirstPass([w EXCEPT !.processedNodes = {}, !.newDoms = <<>>],
              parent, oldChildren, w.nodes[parent].kids, newChildren, 1),
    parent, w.nodes[parent].kids, w)

(***************************************************************************)
(* renderToDOM.  vdom is the vnode's dom field: 0 when the description is  *)
(* a fresh object (or a string), else the live node an earlier pass wrote  *)
(* into it.  w.held is the dom field of the vnode after the call.          *)
(***************************************************************************)
SetHeld(w, n) == [w EXCEPT !.held = n]

\* container.appendChild(domNode); vnode.dom = domNode
AppendCreated(w, vnode, container) ==
  IF w.err # NoErr THEN SetHeld(w, 0)
  ELSE SetHeld(appendChild(w, container, w.ret), IF IsObjectVNode(vnode) THEN w.ret ELSE 0)

renderToDOM(w, vnode, vdom, container) ==
  Rethrow(
    IF IsObjectVNode(vnode) /\ vdom # 0 /\ parentNode(w, vdom) = container
    THEN SetHeld(updateDOMNode(w, vdom, vnode), vdom)
    ELSE AppendCreated(createDOMNode(clearChildren(w, container), vnode), vnode, container),
    "Render error")

(***************************************************************************)
(* Hydration.                                                              *)
(***************************************************************************)
RECURSIVE Preorder(_, _)
RECURSIVE PreorderAll(_, _)
Preorder(ns, n) == <<n>> \o PreorderAll(ns, ns[n].kids)
PreorderAll(ns, s) == IF s = <<>> THEN <<>> ELSE Preorder(ns, Head(s)) \o PreorderAll(ns, Tail(s))

\* element.querySelectorAll: the descendants, in document order
Descendants(w, n) == Tail(Preorder(w.nodes, n))

\* node.textContent = s on an element replaces its children by one text node
setTextContent(w, dom, s) ==
  IF w.nodes[dom].kind = "text"
  THEN Log([w EXCEPT !.nodes[dom].text = s], Op("setText", dom, "", s, 0))
  ELSE Log([w EXCEPT !.nodes = Append([@ EXCEPT ![dom].kids = <<Len(w.nodes) + 1>>],
                                      DomNode("text", "", s)),
                     !.vnodeMetadata = Append(@, NoVNode),
                     !.eventListeners = Append(@, NoMap),
                     !.assigned = Append(@, Undef)],
           Op("setText", dom, "", s, 0))

\* hydrateTextNode that assigns textContent whatever the node holds
hydrateTextNodeAlways(w, vnode, domNode) ==
  SetMeta(setTextContent(w, domNode, vnode.text), domNode, vnode)

hydrateTextNode(w, vnode, domNode) ==
  SetMeta(IF w.nodes[domNode].kind # "text" \/ w.nodes[domNode].text # vnode.text
          THEN setTextContent(w, domNode, vnode.text) ELSE w,
          domNode, vnode)

RECURSIVE hydrateDOM(_, _, _)
RECURSIVE hydrateElementNode(_, _, _)
RECURSIVE HydrateChildren(_, _, _, _, _)

hydrateDOM(w, vnode, domNode) ==
  IF domNode = 0
  THEN Log(w, Op("warn", 0, "", "Hydration failed: DOM node not found", 0))
  ELSE IF isTextVNode(vnode) THEN hydrateTextNode(SetMeta(w, domNode, vnode), vnode, domNode)
  ELSE IF isElementVNode(vnode)
       THEN hydrateElementNode(SetMeta(w, domNode, vnode), vnode, domNode)
  ELSE IF isComponentVNode(vnode)
       THEN Bind(renderComponent(SetMeta(w, domNode, vnode), vnode),
                 LAMBDA r : hydrateDOM(r, r.rv, domNode))
  ELSE SetMeta(w, domNode, vnode)

HydrateChildren(w, domNode, domChildren, newVChildren, index) ==
  IF index > Len(newVChildren) \/ w.err # NoErr THEN w
  ELSE HydrateChildren(
         IF index <= Len(domChildren)
         THEN hydrateDOM(w, newVChildren[index], domChildren[index])
         ELSE Bind(createDOMNode(w, newVChildren[index]),
                   LAMBDA c : appendChild(c, domNode, c.ret)),
         domNode, domChildren, newVChildren, index + 1)

RECURSIVE RemoveExtra(_, _, _, _)
RemoveExtra(w, domNode, domChildren, i) ==
  IF i > Len(domChildren) \/ w.err # NoErr THEN w
  ELSE RemoveExtra(removeChild(w, domNode, domChildren[i]), domNode, domChildren, i + 1)

\* hydrateElementNode that adopts an element of any tag
hydrateElementNodeAnyTag(w, vnode, domNode) ==
  IF w.nodes[domNode].kind # "elem" THEN Throw(w, "TypeError")
  ELSE RemoveExtra(
         HydrateChildren(
           reconcileProps(SetMeta(w, domNode, vnode), domNode, NoProps, vnode.props),
           domNode, w.nodes[domNode].kids, vnode.kids, 1),
         domNode, w.nodes[domNode].kids, Len(vnode.kids) + 1)

\* tagName of a text node is undefined: toLowerCase() throws a TypeError
hydrateElementNode(w, vnode, domNode) ==
  IF w.nodes[domNode].kind # "elem" THEN Throw(w, "TypeError")
  ELSE IF w.nodes[domNode].tag # vnode.tag THEN Throw(w, "Element type mismatch")
  ELSE RemoveExtra(
         HydrateChildren(
           reconcileProps(SetMeta(w, domNode, vnode), domNode, NoProps, vnode.props),
           domNode, w.nodes[domNode].kids, vnode.kids, 1),
         domNode, w.nodes[domNode].kids, Len(vnode.kids) + 1)

FirstChild(w, n) == IF w.nodes[n].kids = <<>> THEN 0 ELSE w.nodes[n].kids[1]

FirstWith(w, s, marker) ==
  LET S == {i \in 1..Len(s) : w.nodes[s[i]].marker = marker} IN
  IF S = {} THEN 0 ELSE s[CHOOSE i \in S : \A j \in S : i <= j]

nextSibling(w, n) ==
  LET sibs == w.nodes[parentNode(w, n)].kids
      i == IndexOf(sibs, n)
  IN IF i < Len(sibs) THEN sibs[i + 1] ELSE 0

\* the end of hydrateIsland's try block, or its catch block
HydratedIsland(w, component, container) ==
  IF w.err = NoErr
  THEN Log([w EXCEPT !.nodes[container].hydrated = TRUE],
           Op("setAttribute", container, "data-island-hydrated", "true", 0))
  ELSE renderToDOM(
         clearChildren([Log(w, Op("error", 0, "Island hydration failed", w.err, 0))
                          EXCEPT !.err = NoErr], container),
         component, 0, container)

hydrateIsland(w, component, container) ==
  HydratedIsland(
    LET islandStart == FirstWith(w, Descendants(w, container), "start")
        islandEnd == FirstWith(w, Descendants(w, container), "end")
    IN IF islandStart # 0 /\ islandEnd # 0
       THEN IF nextSibling(w, islandStart) # 0
            THEN hydrateDOM(w, component, nextSibling(w, islandStart)) ELSE w
       ELSE IF FirstChild(w, container) # 0
            THEN hydrateDOM(w, component, FirstChild(w, container))
            ELSE renderToDOM(w, component, 0, container),
    component, container)

\* root.children.find(child => child.key === key)
FindByKey(children, key) ==
  LET S == {i \in 1..Len(children) :
              IsObjectVNode(children[i]) /\ children[i].key = key} IN
  IF S = {} THEN 0 ELSE CHOOSE i \in S : \A j \in S : i <= j

RECURSIVE HydrateIslands(_, _, _)
HydrateIslands(w, root, islands) ==
  IF islands = <<>> \/ w.err # NoErr THEN w
  ELSE HydrateIslands(
         LET key == w.nodes[Head(islands)].island
             found == IF IsObjectVNode(root) THEN FindByKey(root.kids, key) ELSE 0
         IN IF key # "" /\ found # 0
            THEN hydrateIsland(w, root.kids[found], parentNode(w, Head(islands))) ELSE w,
         root, Tail(islands))

\* the catch block of hydrate
HydrateFallback(w, root, container) ==
  IF w.err = NoErr THEN w
  ELSE renderToDOM(
         clearChildren([Log(w, Op("error", 0, "Hydration mismatch", w.err, 0))
                          EXCEPT !.err = NoErr], container),
         root, 0, container)

\* root.props = { ...root.props, ...state.props }, state.props being {id: "srv"}
MergeState(root, state) ==
  IF state = "props" /\ IsObjectVNode(root) THEN [root EXCEPT !.props["id"] = "srv"] ELSE root

Islands(w, container) ==
  SelectSeq(Descendants(w, container), LAMBDA n : w.nodes[n].island # Undef)

\* state: the ssr-state script: "absent", "invalid" (JSON.parse throws), or
\* "props", a payload with props
hydrate(w, root, container, state) ==
  HydrateFallback(
    IF state = "invalid" THEN Throw(w, "SyntaxError")
    ELSE IF Islands(w, container) # <<>>
         THEN HydrateIslands(w, MergeState(root, state), Islands(w, container))
    ELSE hydrateDOM(w, MergeState(root, state), FirstChild(w, container)),
    MergeState(root, state), container)

(***************************************************************************)
(* The state between passes.  Nodes no longer reachable from the container *)
(* are garbage: the two WeakMaps do not keep them, and a pass starts from  *)
(* the live tree numbered in document order.                               *)
(***************************************************************************)
EmptyDoc ==
  [nodes |-> << DomNode("elem", "container", "") >>,
   vnodeMetadata |-> << NoVNode >>, eventListeners |-> << NoMap >>,
   assigned |-> << Undef >>, ops |-> <<>>, err |-> NoErr, ret |-> 0, rv |-> NoVNode,
   processedNodes |-> {}, newDoms |-> <<>>, held |-> 0]

Live(ns) == {Preorder(ns, Container)[i] : i \in 1..Len(Preorder(ns, Container))}

\* a sequence given by its elements, as a tuple
AsSeq(f) == SubSeq(f, 1, Len(f))

Renumber(order, s) == AsSeq([i \in 1..Len(s) |-> IndexOf(order, s[i])])

Norm(ns, meta, reg, asg, held) ==
  LET order == Preorder(ns, Container) IN
  [EmptyDoc EXCEPT
     !.nodes = AsSeq([i \in 1..Len(order) |->
                  [ns[order[i]] EXCEPT !.kids = Renumber(order, ns[order[i]].kids)]]),
     !.vnodeMetadata = AsSeq([i \in 1..Len(order) |-> meta[order[i]]]),
     !.eventListeners = AsSeq([i \in 1..Len(order) |-> reg[order[i]]]),
     !.assigned = AsSeq([i \in 1..Len(order) |-> asg[order[i]]]),
     !.held = IF held # 0 /\ InSeq(held, order) THEN IndexOf(order, held) ELSE 0]

Start == Norm(nodes, vnodeMetadata, eventListeners, assigned, heldDom)

Snapshot(w) == [nodes |-> w.nodes, vnodeMetadata |-> w.vnodeMetadata,
                eventListeners |-> w.eventListeners, held |-> w.held]

(* The reactivity primitives beside the renderer: eff is one Effect, reactiveObj one
   reactive object with its watchers of the property p.  Neither is touched by a pass
   of the renderer or by a component instance of the model. *)
NewEffect ==
  [stage |-> "INITIAL", cleanup |-> <<>>, runs |-> 0, registered |-> {}, invoked |-> <<>>]
NewReactive == [p |-> "a", listeners |-> <<>>, watchers |-> 0, called |-> <<>>]
NoReactivity == eff = NewEffect /\ reactiveObj = NewReactive

\* what a pass leaves behind in the document
CommitDOM(w, w0, op, vnode) ==
  /\ nodes' = w.nodes
  /\ vnodeMetadata' = w.vnodeMetadata
  /\ eventListeners' = w.eventListeners
  /\ assigned' = w.assigned
  /\ heldDom' = IF w.held # 0 /\ parentNode(w, w.held) = Container THEN w.held ELSE 0
  /\ ops' = w.ops
  /\ prev' = Snapshot(w0)
  /\ last' = [op |-> op, vnode |-> vnode, err |-> w.err]
  /\ UNCHANGED <<eff, reactiveObj>>

\* a pass of the renderer touches no component instance
Commit(w, w0, op, vnode) ==
  /\ CommitDOM(w, w0, op, vnode)
  /\ UNCHANGED <<inst, frames, requested>>

\* passes are started on documents of at most MaxNodes live nodes
MaxNodes == 5
Bounded == Len(Start.nodes) <= MaxNodes

\* renderToDOM(vnode, container) with a vnode object that carries no dom
RenderFresh(vnode) ==
  /\ Bounded
  /\ Commit(renderToDOM(Start, vnode, 0, Container), Start, "render", vnode)

\* renderToDOM(vnode, container) with vnode.dom the root an earlier pass recorded
RenderLinked(vnode) ==
  /\ Bounded
  /\ Start.held # 0
  /\ isElementVNode(vnode) \/ isComponentVNode(vnode)
  /\ Commit(renderToDOM(Start, vnode, Start.held, Container), Start, "patch", vnode)

\* hydrate(root, container): once, on the server's markup, before any other pass
Hydrate(vnode, state) ==
  /\ last.op = "init"
  /\ Commit(hydrate(Start, vnode, Container, state), Start, "hydrate", vnode)

(***************************************************************************)
(* The server's markup for a description: elements and texts with their    *)
(* attributes, no listeners and no metadata.                               *)
(***************************************************************************)
RECURSIVE ServerRender(_, _, _)
RECURSIVE ServerRenderAll(_, _, _)
ServerRender(w, vnode, parent) ==
  LET n == Len(w.nodes) + 1
      rec == IF isTextVNode(vnode) THEN DomNode("text", "", vnode.text)
             ELSE [DomNode("elem", vnode.tag, "") EXCEPT
                     !.className = ClassString(vnode.props["className"]),
                     !.id = IF vnode.props["id"] = Undef THEN "" ELSE vnode.props["id"],
                     !.datax = vnode.props["data-x"]]
      w1 == [w EXCEPT !.nodes = Append([@ EXCEPT ![parent].kids = Append(@, n)], rec),
                      !.vnodeMetadata = Append(@, NoVNode),
                      !.eventListeners = Append(@, NoMap),
                      !.assigned = Append(@, Undef)]
  IN IF isComponentVNode(vnode)
     THEN ServerRenderAll(w, vnode.kids, parent)
     ELSE ServerRenderAll(w1, vnode.kids, n)

ServerRenderAll(w, children, parent) ==
  IF children = <<>> THEN w
  ELSE ServerRenderAll(ServerRender(w, Head(children), parent), Tail(children), parent)

(***************************************************************************)
(* Descriptions.                                                           *)
(***************************************************************************)
OnClick(h) == [NoProps EXCEPT !["onClick"] = h]

Span == VElem("span", NoKey, OnClick("f1"), <<>>)
Para == VElem("p", NoKey, NoProps, <<>>)
Cls == VComp("Cls", NoKey, NoProps, <<>>)
Div(h, kids) == VElem("div", NoKey, OnClick(h), kids)

\* a description that is neither a string nor an object with a type
Malformed == [NoVNode EXCEPT !.k = "number"]

Descs ==
  { Div(Undef, << VText("hello") >>),
    Div("f1", << Span >>), Div("f2", << Para >>), Div("f1", << Para >>),
    Div("f2", << VElem("", NoKey, NoProps, <<>>) >>),
    Div("f1", << Cls >>),
    Cls, VComp("Boom", NoKey, NoProps, <<>>), VComp("Bnd", NoKey, NoProps, <<>>), VComp("Fn", NoKey, NoProps, <<>>),
    VText("hello"), VElem("", NoKey, NoProps, <<>>), Malformed }

ServerDescs ==
  { VElem("div", NoKey, NoProps, << VText("hello") >>),
    VElem("div", NoKey, NoProps, << VElem("span", NoKey, NoProps, <<>>), VText("x") >>),
    VElem("span", NoKey, NoProps, <<>>) }

InitDOM(w) ==
  /\ nodes = w.nodes
  /\ vnodeMetadata = w.vnodeMetadata
  /\ eventListeners = w.eventListeners
  /\ assigned = w.assigned
  /\ heldDom = 0
  /\ ops = <<>>
  /\ prev = Snapshot(w)
  /\ last = [op |-> "init", vnode |-> NoVNode, err |-> NoErr]
  /\ NoReactivity

\* a document with no component instance
InitWorld(w) ==
  /\ InitDOM(w)
  /\ inst = <<>>
  /\ frames = <<>>
  /\ requested = <<>>

Init ==
  \/ InitWorld(EmptyDoc)
  \/ \E d \in ServerDescs : InitWorld(ServerRender(EmptyDoc, d, Container))

Render == \E d \in Descs : RenderFresh(d)
Patch == \E d \in Descs : RenderLinked(d)
HydrateRoot == \E d \in Descs, state \in {"absent", "invalid", "props"} : Hydrate(d, state)

Next == Render \/ Patch \/ HydrateRoot

Spec == Init /\ [][Next]_vars

(***************************************************************************)
(* What a pass did, read from the state it leaves: prev is the document    *)
(* the pass started from, ops the host operations it performed.            *)
(***************************************************************************)
OpsIn(log, names) == {i \in 1..Len(log) : log[i].op \in names}
OpsNamed(names) == OpsIn(ops, names)
CreatedNodes == {ops[i].node : i \in OpsNamed({"createElement", "createTextNode"})}
Passes == {"render", "patch", "hydrate"}

\* the root the pass patched, its committed children and their live nodes
OldChildren == prev.vnodeMetadata[prev.held].kids
OldChildNodes == prev.nodes[prev.held].kids
NewChildren == last.vnode.kids

PatchedElement ==
  /\ last.op = "patch"
  /\ prev.held # 0
  /\ isElementVNode(last.vnode)
  /\ prev.nodes[prev.held].kind = "elem"
  /\ isElementVNode(prev.vnodeMetadata[prev.held])

\* the committed child list describes the live children one to one
OldListCommitted ==
  /\ Len(OldChildren) = Len(OldChildNodes)
  /\ \A j \in 1..Len(OldChildren) : prev.vnodeMetadata[OldChildNodes[j]] = OldChildren[j]

DistinctKeys(children) ==
  \A i, j \in 1..Len(children) :
    getKey(children[i], i - 1) = getKey(children[j], j - 1) => i = j

(***************************************************************************)
(* Keyed sibling lists and their permutations.                             *)
(***************************************************************************)
MaxKeyed == 3
KeyNames == {"a", "b", "c", "d"}
TagOf(key) == IF key \in {"a", "b"} THEN "li" ELSE "p"
Keyed(key) == VElem(TagOf(key), key, NoProps, <<>>)
Ul(kids) == VElem("ul", NoKey, NoProps, kids)

RECURSIVE SeqsUpTo(_, _)
SeqsUpTo(S, n) ==
  IF n = 0 THEN {<<>>}
  ELSE SeqsUpTo(S, n - 1) \cup {Append(s, x) : s \in SeqsUpTo(S, n - 1), x \in S}

KeyedLists ==
  {l \in SeqsUpTo({Keyed(k) : k \in KeyNames}, MaxKeyed) : DistinctKeys(l)}

IsPermutationOf(new, old) ==
  /\ Len(new) = Len(old)
  /\ \A i \in 1..Len(new) : \E j \in 1..Len(old) : new[i] = old[j]

InitEmpty == InitWorld(EmptyDoc)

RenderKeyed ==
  /\ last.op = "init"
  /\ \E l \in KeyedLists : RenderFresh(Ul(l))

Reorder ==
  /\ last.op # "init"
  /\ \E l \in KeyedLists : IsPermutationOf(l, last.vnode.kids) /\ RenderLinked(Ul(l))

NextPerm == RenderKeyed \/ Reorder

SpecPerm == InitEmpty /\ [][NextPerm]_vars

\* the live node that carried an explicit key before the pass
NodeOfKey(key) ==
  OldChildNodes[CHOOSE j \in 1..Len(OldChildren) : OldChildren[j].key = key]

KeyedPermutation ==
  /\ PatchedElement
  /\ OldListCommitted
  /\ \A j \in 1..Len(OldChildren) :
       isElementVNode(OldChildren[j]) /\ OldChildren[j].key # NoKey
  /\ DistinctKeys(OldChildren)
  /\ IsPermutationOf(NewChildren, OldChildren)

MaxKids == 3
Pool ==
  { VElem("li", "a", NoProps, <<>>), VElem("li", NoKey, NoProps, <<>>),
    VElem("p", NoKey, NoProps, <<>>), VText("t") }
Lists == SeqsUpTo(Pool, MaxKids)

RenderList ==
  /\ last.op = "init"
  /\ \E l \in Lists : RenderFresh(Ul(l))

PatchList ==
  /\ last.op = "render"
  /\ \E l \in Lists : RenderLinked(Ul(l))

NextKeyed == RenderList \/ PatchList

SpecKeyed == InitEmpty /\ [][NextKeyed]_vars

\* the old child the i-th new child's resolution key matches, 0 if none
KeyMatch(i) == OldEntry(OldChildren, OldChildNodes, getKey(NewChildren[i], i - 1))
Matched == {KeyMatch(i) : i \in 1..Len(NewChildren)} \ {0}

CompatibleLists ==
  /\ PatchedElement
  /\ OldListCommitted
  /\ DistinctKeys(OldChildren)
  /\ DistinctKeys(NewChildren)
  /\ \A i \in 1..Len(NewChildren) :
       KeyMatch(i) # 0 =>
         canUpdateInPlace(prev, OldChildNodes[KeyMatch(i)], NewChildren[i],
                          OldChildren[KeyMatch(i)])

PropSets ==
  {[NoProps EXCEPT !["onClick"] = h, !["className"] = c, !["id"] = i] :
     h \in {Undef, "f1", "f2"}, c \in {Undef, "a"}, i \in {Undef, "x"}}
Button(props) == VElem("button", NoKey, props, <<>>)

RenderButton ==
  /\ last.op = "init"
  /\ \E p \in PropSets : RenderFresh(Button(p))

PatchButton ==
  /\ last.op # "init"
  /\ \E p \in PropSets : RenderLinked(Button(p))

NextProps == RenderButton \/ PatchButton

SpecProps == InitEmpty /\ [][NextProps]_vars

OldProps == prev.vnodeMetadata[prev.held].props
NewProps == last.vnode.props

\* the element had a handler committed and attached, and is patched with
\* props that differ in the handler only
HandlerSwapped ==
  /\ PatchedElement
  /\ IsFunction(OldProps["onClick"])
  /\ IsFunction(NewProps["onClick"])
  /\ OldProps["onClick"] # NewProps["onClick"]
  /\ NewProps = [OldProps EXCEPT !["onClick"] = NewProps["onClick"]]
  /\ prev.eventListeners[prev.held].click = OldProps["onClick"]
  /\ prev.nodes[prev.held].on = << OldProps["onClick"] >>

\* C7: patching an element whose committed onClick is f1 (attached) with
\* onClick f2 # f1 performs exactly two host operations: the removal of the
\* click listener f1, then the addition of the click listener f2; nothing
\* else is written.
C7_SwapRemovesThenAdds ==
  HandlerSwapped =>
    ops = << Op("removeEventListener", prev.held, "click", OldProps["onClick"], 0),
             Op("addEventListener", prev.held, "click", NewProps["onClick"], 0) >>

C7_Witness_Swapped ==
  /\ HandlerSwapped
  /\ OldProps = OnClick("f1")
  /\ NewProps = OnClick("f2")
  /\ nodes[prev.held].on = << "f2" >>
  /\ Len(ops) = 2

(***************************************************************************)
(* Consecutive passes over arbitrary descriptions (Spec).                  *)
(***************************************************************************)
Hello == Div(Undef, << VText("hello") >>)
LiveAfter == Norm(nodes, vnodeMetadata, eventListeners, assigned, heldDom)

\* C3: a pass that patches the live tree with the description the previous
\* pass committed performs no host operation.
C3_SamePatchTwiceIsSilent ==
  [][(/\ last.op \in Passes /\ last.err = NoErr
      /\ last'.op = "patch" /\ last'.vnode = last.vnode)
       => OpsIn(ops', HostOps) = {}]_vars

\* C4: a second renderToDOM on the same container with a freshly produced
\* description of the same root element keeps the root live node and does
\* not clear the container; with both descriptions div["hello"] it performs
\* no host operation.
C4_SecondRenderPatchesInPlace ==
  [][(/\ last.op = "render" /\ last.err = NoErr /\ heldDom # 0
      /\ isElementVNode(last.vnode)
      /\ last'.op = "render" /\ isElementVNode(last'.vnode)
      /\ last'.vnode.tag = last.vnode.tag)
       => /\ OpsIn(ops', {"clear"}) = {}
          /\ nodes'[Container].kids = prev'.nodes[Container].kids
          /\ (last.vnode = Hello /\ last'.vnode = Hello => OpsIn(ops', HostOps) = {})]_vars

\* C5: after a pass, a node that was live before it and is live no longer
\* has no metadata entry and no listener registry entry.
C5_RemovedNodesAreReleased ==
  last.op \in Passes =>
    \A n \in 1..Len(prev.nodes) :
      n \notin Live(nodes) => vnodeMetadata[n] = NoVNode /\ eventListeners[n] = NoMap

\* C6: every live element has at most one click listener attached, the
\* registry holds exactly that listener, and it is the handler most recently
\* assigned to the element's onClick (none if that value is no function).
C6_OneListenerMostRecent ==
  \A n \in Live(nodes) :
    nodes[n].kind = "elem" =>
      /\ Len(nodes[n].on) <= 1
      /\ nodes[n].on = IF eventListeners[n].click = Undef THEN <<>>
                       ELSE << eventListeners[n].click >>
      /\ nodes[n].on = IF IsFunction(assigned[n]) THEN << assigned[n] >> ELSE <<>>

\* a new child's key matches an old child that cannot be updated in place
IncompatibleMatch ==
  /\ PatchedElement
  /\ OldListCommitted
  /\ \E i \in 1..Len(NewChildren) :
       /\ KeyMatch(i) # 0
       /\ ~canUpdateInPlace(prev, OldChildNodes[KeyMatch(i)], NewChildren[i],
                            OldChildren[KeyMatch(i)])

\* C8: when a new child matches an old child that cannot be updated in
\* place, the pass completes without an error, the parent's committed
\* description is the new one, and the old child is detached and released.
C8_ReplacementCompletes ==
  IncompatibleMatch =>
    /\ last.err = NoErr
    /\ vnodeMetadata[prev.held] = last.vnode
    /\ Len(nodes[prev.held].kids) = Len(NewChildren)
    /\ \A i \in 1..Len(NewChildren) :
         (/\ KeyMatch(i) # 0
          /\ ~canUpdateInPlace(prev, OldChildNodes[KeyMatch(i)], NewChildren[i],
                               OldChildren[KeyMatch(i)]))
           => /\ nodes[prev.held].kids[i] \in CreatedNodes
              /\ parentNode([nodes |-> nodes], OldChildNodes[KeyMatch(i)]) = 0
              /\ vnodeMetadata[OldChildNodes[KeyMatch(i)]] = NoVNode

\* C9: a renderToDOM that fails leaves the container's committed live tree
\* as it was before the call.
C9_FailedRenderLeavesTree ==
  (last.op \in {"render", "patch"} /\ last.err # NoErr /\ prev.held # 0)
    => LiveAfter.nodes = prev.nodes

\* C10: a class component description patched again at the same position
\* with the same type is not constructed again: the pass calls render once
\* and the constructor not at all.
C10_ConstructedOnce ==
  [][(/\ last.op \in Passes /\ last.err = NoErr
      /\ isComponentVNode(last.vnode) /\ isClassComponent(last.vnode.tag)
      /\ last'.op = "patch" /\ last'.vnode = last.vnode)
       => /\ OpsIn(ops', {"new"}) = {}
          /\ Cardinality(OpsIn(ops', {"render"})) = 1]_vars

(***************************************************************************)
(* Component instances in the renderer.  renderComponent logs "new" and    *)
(* "render" (or "call"); the teardown entry points of an instance are      *)
(* unmountComponent and the destroy hook.                                  *)
(***************************************************************************)
TeardownOps == {"unmountComponent", "handleDestroy", "beforeUnmount"}

\* C11: when the component type at the root position changes between two
\* passes, the pass tears the old instance down (a teardown entry point is
\* invoked) and constructs an instance for the new description.
C11_TypeChangeTearsDown ==
  [][(/\ last.op \in Passes /\ last.err = NoErr
      /\ isComponentVNode(last.vnode) /\ isClassComponent(last.vnode.tag)
      /\ last'.op \in {"render", "patch"}
      /\ isComponentVNode(last'.vnode) /\ last'.vnode.tag # last.vnode.tag)
       => /\ OpsIn(ops', TeardownOps) # {}
          /\ OpsIn(ops', {"new", "call"}) # {}]_vars

(* An error boundary in the renderer: the class Bnd is declared an error boundary
   (options.errorBoundary), its render returns an article holding a heading and the
   failing component Boom.  An instance's error field is null after construction and is
   assigned only by captureChildError. *)
BoundaryClasses == {"Bnd"}
ErrorFieldSet(log, cls) == \E i \in OpsIn(log, {"captureChildError"}) : log[i].name = cls
RenderThrewUnder(log, cls) ==
  \E i \in OpsIn(log, {"new"}), j \in OpsIn(log, {"error"}) : i < j /\ log[i].name = cls
ContainsError(t) == t \in {"Error: Component error: boom", "Component Error"}
FallbackAfter(ns, tag) ==
  \E a \in Live(ns) :
    /\ Len(ns[a].kids) = 2
    /\ ns[ns[a].kids[1]].tag = tag /\ ns[ns[a].kids[1]].kids = <<>>
    /\ \E t \in {Preorder(ns, ns[a].kids[2])[i] : i \in 1..Len(Preorder(ns, ns[a].kids[2]))} :
         ns[t].kind = "text" /\ ContainsError(ns[t].text)

\* C12: when a component's render throws during a pass below an instance of
\* a declared error boundary, then after the pass the boundary's error field
\* is set, fallback markup with the word "Error" stands in place of the failed
\* subtree, and the sibling rendered before it is live and intact.
C12_BoundaryHoldsError ==
  [][(/\ last'.op \in {"render", "patch"}
      /\ \E b \in BoundaryClasses : RenderThrewUnder(ops', b))
       => /\ \A b \in BoundaryClasses : RenderThrewUnder(ops', b) => ErrorFieldSet(ops', b)
          /\ FallbackAfter(nodes', "h1")]_vars

(***************************************************************************)
(* Component instances (SwissComponent).  inst[c] holds the fields of      *)
(* instance c; _parent and _children are set by the code that builds the   *)
(* component tree.  frames is the queue of requestAnimationFrame           *)
(* callbacks, each the callback of scheduleUpdate of one instance.         *)
(* requested[c] holds while a scheduleUpdate call on the mounted c has not *)
(* been followed by the start of a performUpdate that renders c.  The      *)
(* operators thread a record m: the document m.w, the instances, the       *)
(* queue, the return value of captureChildError (handled), the boundary    *)
(* variable of captureError and the rendered description rv.  Calls of     *)
(* scheduleUpdate, performUpdate and resetErrorBoundary are logged in      *)
(* m.w.ops next to the host operations of the step.                        *)
(***************************************************************************)

NoError == [phase |-> "", component |-> 0]

Instance(boundary, parent, children) ==
  [isErrorBoundary |-> boundary, parent |-> parent, children |-> children,
   error |-> NoError, childErrors |-> {}, updateScheduled |-> FALSE,
   isMounted |-> FALSE, container |-> 0, errorHandlingPhase |-> FALSE]

Machine ==
  [w |-> Start, inst |-> inst, frames |-> frames, requested |-> requested,
   handled |-> FALSE, boundary |-> 0, rv |-> NoVNode]

LogM(m, o) == [m EXCEPT !.w = Log(@, o)]

\* scheduleUpdate without the updateScheduled flag: every call queues a callback
scheduleUpdateNoFlag(m, self) ==
  LET m1 == LogM([m EXCEPT !.requested[self] = @ \/ m.inst[self].isMounted],
                 Op("scheduleUpdate", 0, "", "", self))
  IN LogM([m1 EXCEPT !.inst[self].updateScheduled = TRUE, !.frames = Append(@, self)],
          Op("requestAnimationFrame", 0, "scheduleUpdate", "", self))

scheduleUpdate(m, self) ==
  LET m1 == LogM([m EXCEPT !.requested[self] = @ \/ m.inst[self].isMounted],
                 Op("scheduleUpdate", 0, "", "", self))
  IN IF ~m.inst[self].updateScheduled
     THEN LogM([m1 EXCEPT !.inst[self].updateScheduled = TRUE, !.frames = Append(@, self)],
               Op("requestAnimationFrame", 0, "scheduleUpdate", "", self))
     ELSE m1

\* captureChildError that does not ask whether the instance's class is a boundary
RECURSIVE captureChildErrorAnyClass(_, _, _)
captureChildErrorAnyClass(m, self, child) ==
  IF m.inst[self].error = NoError
  THEN [scheduleUpdate(
          LogM([m EXCEPT !.inst[self].childErrors = @ \cup {child},
                         !.inst[self].error = [phase |-> "render", component |-> self]],
               Op("captureChildError", 0, "", "render", self)),
          self) EXCEPT !.handled = TRUE]
  ELSE IF m.inst[self].parent # 0
  THEN captureChildErrorAnyClass(m, m.inst[self].parent, self)
  ELSE [m EXCEPT !.handled = FALSE]

RECURSIVE captureChildError(_, _, _)
captureChildError(m, self, child) ==
  IF m.inst[self].isErrorBoundary /\ m.inst[self].error = NoError
  THEN [scheduleUpdate(
          LogM([m EXCEPT !.inst[self].childErrors = @ \cup {child},
                         !.inst[self].error = [phase |-> "render", component |-> self]],
               Op("captureChildError", 0, "", "render", self)),
          self) EXCEPT !.handled = TRUE]
  ELSE IF m.inst[self].parent # 0
  THEN captureChildError(m, m.inst[self].parent, self)
  ELSE [m EXCEPT !.handled = FALSE]

dispatchGlobalError(m, self, phase) ==
  LogM(m, Op("dispatchEvent", 0, "swiss-error", phase, self))

\* the loop of captureError: boundary is the instance that handled the error, or 0
RECURSIVE FindBoundary(_, _, _)
TriedBoundary(m, self, boundary) ==
  IF m.handled THEN [m EXCEPT !.boundary = boundary]
  ELSE FindBoundary(m, self, m.inst[boundary].parent)
FindBoundary(m, self, boundary) ==
  IF boundary = 0 THEN [m EXCEPT !.boundary = 0]
  ELSE TriedBoundary(captureChildError(m, boundary, self), self, boundary)

AfterBoundarySearch(m, self, phase) ==
  [(IF m.boundary = 0 THEN dispatchGlobalError(m, self, phase) ELSE m)
     EXCEPT !.inst[self].errorHandlingPhase = FALSE]

captureError(m, self, phase) ==
  IF m.inst[self].errorHandlingPhase THEN m
  ELSE AfterBoundarySearch(
         FindBoundary(LogM([m EXCEPT !.inst[self].errorHandlingPhase = TRUE],
                           Op("error", 0, "captureError", "Error in component during " \o phase, self)),
                      self, m.inst[self].parent),
         self, phase)

renderErrorFallback(m, self) ==
  VElem("div", NoKey,
        [NoProps EXCEPT !["style"] = "border: 1px solid red; padding: 10px; color: red;"],
        << VElem("h3", NoKey, NoProps, << VText("Component Error") >>),
           VElem("p", NoKey, NoProps,
                 << VText("Phase: " \o (IF m.inst[self].error = NoError THEN "N/A"
                                         ELSE m.inst[self].error.phase)) >>),
           VElem("pre", NoKey, [NoProps EXCEPT !["style"] = "white-space: pre-wrap;"],
                 << VText(IF m.inst[self].error = NoError THEN "undefined" ELSE "stack") >>) >>)

SetRv(m, vnode) == [m EXCEPT !.rv = vnode]
Fallback(m, self) == SetRv(m, renderErrorFallback(m, self))

\* the outcomes of an instance's render(): a description, or an exception;
\* again: the code render runs calls this.scheduleUpdate()
Outcomes == {"ok", "throws"}

safeRender(m, self, out, again) ==
  IF m.inst[self].error # NoError THEN Fallback(m, self)
  ELSE IF out = "throws"
  THEN Fallback(captureError(IF again THEN scheduleUpdate(m, self) ELSE m, self, "render"), self)
  ELSE SetRv(IF again THEN scheduleUpdate(m, self) ELSE m, Hello)

RenderInto(m, self) == [m EXCEPT !.w = renderToDOM(m.w, m.rv, 0, m.inst[self].container)]

AfterRenderToDOM(m, self) ==
  IF m.w.err # NoErr THEN captureError([m EXCEPT !.w = Throw(@, NoErr)], self, "render")
  ELSE m

performUpdate(m, self, out, again) ==
  IF ~m.inst[self].isMounted \/ m.inst[self].container = 0
  THEN LogM(m, Op("performUpdate", 0, "return", "", self))
  ELSE AfterRenderToDOM(
         RenderInto(
           safeRender(LogM([m EXCEPT !.requested[self] = FALSE],
                           Op("performUpdate", 0, "render", "", self)),
                      self, out, again),
           self),
         self)

RECURSIVE resetErrorBoundary(_, _)
RECURSIVE ResetChildren(_, _)
resetErrorBoundary(m, self) ==
  ResetChildren(
    IF m.inst[self].error # NoError
    THEN scheduleUpdate(LogM([m EXCEPT !.inst[self].error = NoError,
                                       !.inst[self].childErrors = {}],
                             Op("resetErrorBoundary", 0, "clear", "", self)), self)
    ELSE LogM(m, Op("resetErrorBoundary", 0, "", "", self)),
    m.inst[self].children)
ResetChildren(m, kids) ==
  IF kids = <<>> THEN m
  ELSE ResetChildren(IF m.inst[Head(kids)].isErrorBoundary
                     THEN resetErrorBoundary(m, Head(kids)) ELSE m,
                     Tail(kids))

executeHookPhase(m, self, phase) == LogM(m, Op("executeHookPhase", 0, phase, "", self))

\* the end of mount: this._isMounted = true; this.executeHookPhase('mounted')
Mounted(m, self) == executeHookPhase([m EXCEPT !.inst[self].isMounted = TRUE], self, "mounted")

mount(m, self, container) ==
  IF m.inst[self].isMounted THEN m
  ELSE Mounted(
         performUpdate(
           executeHookPhase([m EXCEPT !.inst[self].container = container], self, "beforeMount"),
           self, "ok", FALSE),
         self)

\* the container of the model is the document's root, which has no parent to leave
unmountComponent(m, self) ==
  LogM([m EXCEPT !.inst[self].children = <<>>, !.inst[self].parent = 0,
                 !.inst[self].isMounted = FALSE, !.requested[self] = FALSE],
       Op("unmountComponent", 0, "", "", self))

\* the callback of scheduleUpdate, and one animation frame: the callbacks
\* queued before the frame, in order
RECURSIVE RunCallbacks(_, _, _, _)
RunCallbacks(m, todo, outs, again) ==
  IF todo = <<>> THEN m
  ELSE RunCallbacks(
         [performUpdate(m, Head(todo), outs[Head(todo)], Head(todo) \in again)
            EXCEPT !.inst[Head(todo)].updateScheduled = FALSE],
         Tail(todo), outs, again)

Scheduled == {frames[i] : i \in 1..Len(frames)}

\* what a step of the component system leaves behind
CommitComp(m, op) ==
  /\ CommitDOM(m.w, prev, op, NoVNode)
  /\ inst' = m.inst
  /\ frames' = m.frames
  /\ requested' = m.requested

Mount(c) ==
  /\ ~inst[c].isMounted
  /\ CommitComp(mount(Machine, c, Container), "mount")

Unmount(c) ==
  /\ inst[c].isMounted
  /\ CommitComp(unmountComponent(Machine, c), "unmountComponent")

ScheduleUpdate(c) == CommitComp(scheduleUpdate(Machine, c), "scheduleUpdate")

\* the reactive effect of setupReactivity runs performUpdate at once
Effect(c) ==
  \E out \in Outcomes :
    CommitComp(performUpdate(Machine, c, out, FALSE), "effect")

ResetErrorBoundary(c) == CommitComp(resetErrorBoundary(Machine, c), "resetErrorBoundary")

\* Requests: the sets of instances whose render may call scheduleUpdate
FrameWith(Requests) ==
  /\ frames # <<>>
  /\ \E throwing \in SUBSET Scheduled, again \in Requests :
       CommitComp(RunCallbacks([Machine EXCEPT !.frames = <<>>], frames,
                               [c \in DOMAIN inst |-> IF c \in throwing THEN "throws" ELSE "ok"],
                               again), "frame")

Frame == FrameWith(SUBSET Scheduled)
\* frames in which no render calls scheduleUpdate
QuietFrame == FrameWith({{}})

(* Mounted trees: n instances, each the only child of the one before, with bs the
   instances whose class is an error boundary. *)
Chain(n, bs) ==
  AsSeq([c \in 1..n |->
           [Instance(c \in bs, c - 1, IF c < n THEN <<c + 1>> ELSE <<>>)
              EXCEPT !.container = Container, !.isMounted = TRUE]])

InitChains(n, sets) ==
  /\ InitDOM(EmptyDoc)
  /\ inst \in {Chain(n, bs) : bs \in sets}
  /\ frames = <<>>
  /\ requested = AsSeq([c \in 1..n |-> FALSE])

EffectAny == \E c \in DOMAIN inst : Effect(c)
ResetAny == \E c \in DOMAIN inst : ResetErrorBoundary(c)
RenderBoom == RenderFresh(VComp("Boom", NoKey, NoProps, <<>>))

(* Render errors of a parent and its child, the parent an error boundary or not;
   renders run through the reactive effect, through animation frames and through the
   renderer's renderComponent. *)
InitErrors == InitChains(2, {{}, {1}})
NextErrors == EffectAny \/ ResetAny \/ QuietFrame \/ RenderBoom
SpecErrors == InitErrors /\ [][NextErrors]_vars

\* console.error of a component's render error: in renderComponent, in captureError
ComponentErrors(log) ==
  {i \in OpsIn(log, {"error"}) :
     log[i].val \in {"Component rendering error", "Error in component during render"}}

\* what follows error i in the log before the next error
Outcome(log, i, names) ==
  \E j \in OpsIn(log, names) :
    /\ i < j
    /\ \A k \in ComponentErrors(log) : ~(i < k /\ k < j)
    /\ log[j].op = "dispatchEvent"
         => log[j].name = "swiss-error" /\ log[j].val = "render" /\ log[j].other # 0

\* C13: every component render error is followed, in the step that raised
\* it, by a boundary's capture or by a global 'swiss-error' event carrying the
\* phase and the source component.
C13_NoRenderErrorDropped ==
  [][\A i \in ComponentErrors(ops') : Outcome(ops', i, {"captureChildError", "dispatchEvent"})]_vars

(* The tree of C14: four mounted instances in a chain, so that a boundary can sit
   below a component that is none, with a child of its own whose render throws. *)
MaxInst == 4
BoundarySets == {{}, {1}, {3}, {1, 3}, {1, 2, 3}}
InitTree == InitChains(MaxInst, BoundarySets)
NextTree == EffectAny \/ ResetAny
SpecTree == InitTree /\ [][NextTree]_vars

\* the instances below c in the component tree (_children, transitively)
RECURSIVE Below(_, _)
RECURSIVE BelowAll(_, _)
Below(is, c) == BelowAll(is, is[c].children)
BelowAll(is, kids) ==
  IF kids = <<>> THEN {}
  ELSE {Head(kids)} \cup Below(is, Head(kids)) \cup BelowAll(is, Tail(kids))

\* C14: after resetErrorBoundary() on a boundary B, B.error is null, B's
\* recorded child errors are empty, and every error boundary below B in the
\* component tree, at any depth, has error null.
C14_ResetReachesNested ==
  [][(last'.op = "resetErrorBoundary" /\ inst[ops'[1].other].isErrorBoundary)
       => /\ inst'[ops'[1].other].error = NoError
          /\ inst'[ops'[1].other].childErrors = {}
          /\ \A d \in Below(inst, ops'[1].other) :
               inst'[d].isErrorBoundary => inst'[d].error = NoError]_vars

(* Scheduling: a mounted boundary and its child.  Any caller may call scheduleUpdate,
   mount and unmountComponent; the reactive effect renders at once; an animation frame
   runs the queued callbacks, and the code a render runs may itself call
   scheduleUpdate. *)
SchedInst == 2
InitSched == InitChains(SchedInst, {{1}})
MountAny == \E c \in DOMAIN inst : Mount(c)
UnmountAny == \E c \in DOMAIN inst : Unmount(c)
ScheduleAny == \E c \in DOMAIN inst : ScheduleUpdate(c)
NextSched == MountAny \/ UnmountAny \/ ScheduleAny \/ EffectAny \/ Frame
SpecSched == InitSched /\ [][NextSched]_vars

(* Animation frames keep firing: while a callback is pending, a frame runs.  The steps
   of Frame are the steps that leave last = FrameRecord, they always change the queue,
   and Frame is enabled exactly when the queue is not empty; FrameFires states this
   much of Frame and no more, so that its enabling is decided from the queue alone. *)
FrameRecord == [op |-> "frame", vnode |-> NoVNode, err |-> NoErr]
Queues ==
  {q \in SeqsUpTo(1..SchedInst, SchedInst) : \A c \in 1..SchedInst : Cardinality({i \in 1..Len(q) : q[i] = c}) <= 1}
FrameFires ==
  /\ frames # <<>>
  /\ last' = FrameRecord
  /\ frames' \in Queues
SpecSchedLive == SpecSched /\ WF_<<last, frames>>(FrameFires)

\* C15: every scheduleUpdate request on a mounted instance (a boundary's
\* capture included) is followed, while the instance stays mounted, by the
\* start of a performUpdate that renders it.
C15_RequestLeadsToUpdate ==
  \A c \in 1..SchedInst : requested[c] ~> ~requested[c]

Pending(q, c) == Cardinality({i \in 1..Len(q) : q[i] = c})
Performed(log, c) == Cardinality({i \in OpsIn(log, {"performUpdate"}) : log[i].other = c})
Called(log) == {log[i].other : i \in OpsIn(log, {"scheduleUpdate"})}

\* C16: an instance has at most one callback of scheduleUpdate pending; a
\* call made between two frames leaves a callback pending until the next
\* frame, and the frame runs performUpdate exactly once for each instance
\* with a pending callback and for no other.
C16_OneUpdatePerFrame ==
  [][/\ \A c \in DOMAIN inst' : Pending(frames', c) <= 1
     /\ last'.op # "frame" =>
          /\ \A c \in Called(ops') : Pending(frames', c) = 1
          /\ \A c \in DOMAIN inst : Pending(frames, c) <= Pending(frames', c)
     /\ last'.op = "frame" =>
          \A c \in DOMAIN inst : Performed(ops', c) = Pending(frames, c)]_vars

\* a scheduleUpdate call on an instance whose callback is already pending:
\* the call queued nothing and the one callback stays pending
C16_Witness_Coalesced ==
  /\ last.op = "scheduleUpdate"
  /\ OpsIn(ops, {"requestAnimationFrame"}) = {}
  /\ \A c \in Called(ops) : Pending(frames, c) = 1

(***************************************************************************)
(* Hydration of server markup.  The container holds the markup of one of   *)
(* the descriptions, nothing at all, or markup with island markers (which  *)
(* no code of the repository writes: it is the page's).  hydrate is called *)
(* once, with no ssr-state script or with one that carries props.          *)
(***************************************************************************)
HDescs ==
  { Div("f1", << Span >>), Div("f1", << Para >>), Hello, Span,
    Div("f2", << Span, VText("x") >>), Div(Undef, <<>>), VText("hello"),
    Div(Undef, << VText("bye") >>) }

\* <section data-swiss-island="a"> and the description of its component
IslandKey == "a"
IslandElement == [DomNode("elem", "section", "") EXCEPT !.island = IslandKey]
IslandRoot == Div(Undef, << VElem("section", IslandKey, OnClick("f1"), <<>>) >>)
Marker(m) == [DomNode("elem", "template", "") EXCEPT !.marker = m]

AddNode(w, parent, rec) ==
  [w EXCEPT !.nodes = Append([@ EXCEPT ![parent].kids = Append(@, Len(w.nodes) + 1)], rec),
            !.vnodeMetadata = Append(@, NoVNode),
            !.eventListeners = Append(@, NoMap),
            !.assigned = Append(@, Undef)]

\* the island alone; the island after a paragraph in a wrapper; the island
\* between start and end markers in a wrapper, a paragraph after them
IslandDocs ==
  { AddNode(EmptyDoc, Container, IslandElement),
    AddNode(AddNode(AddNode(EmptyDoc, Container, DomNode("elem", "div", "")),
                    2, DomNode("elem", "p", "")),
            2, IslandElement),
    AddNode(AddNode(AddNode(AddNode(AddNode(EmptyDoc, Container, DomNode("elem", "div", "")),
                                    2, Marker("start")),
                            2, IslandElement),
                    2, Marker("end")),
            2, DomNode("elem", "p", "")) }

InitHydrate ==
  \/ InitWorld(EmptyDoc)
  \/ \E d \in HDescs : InitWorld(ServerRender(EmptyDoc, d, Container))
  \/ \E w \in IslandDocs : InitWorld(w)

HydrateMarkup ==
  \E d \in HDescs \cup {IslandRoot}, state \in {"absent", "props"} : Hydrate(d, state)

NextHydrate == HydrateMarkup
SpecHydrate == InitHydrate /\ [][NextHydrate]_vars

\* the document the pass started from, and what it was asked to build
NoIslands == Islands(prev, Container) = <<>>
LiveRoot(w) == FirstChild(w, Container)

\* the shape of a description: node kinds, tags, texts and child counts
RECURSIVE SameShape(_, _, _)
SameShape(ns, n, vnode) ==
  IF n = 0 THEN FALSE
  ELSE IF isTextVNode(vnode) THEN ns[n].kind = "text" /\ ns[n].text = vnode.text
  ELSE /\ ns[n].kind = "elem"
       /\ ns[n].tag = vnode.tag
       /\ Len(ns[n].kids) = Len(vnode.kids)
       /\ \A i \in 1..Len(vnode.kids) : SameShape(ns, ns[n].kids[i], vnode.kids[i])

\* the listeners of a description, on the nodes that stand for it
RECURSIVE SameHandlers(_, _, _)
SameHandlers(ns, n, vnode) ==
  isElementVNode(vnode) =>
    /\ ns[n].on = IF vnode.props["onClick"] = Undef THEN <<>> ELSE << vnode.props["onClick"] >>
    /\ \A i \in 1..Len(vnode.kids) : SameHandlers(ns, ns[n].kids[i], vnode.kids[i])

\* a live element and the desired element at its position differ in tag
RECURSIVE TagMismatch(_, _, _, _)
TagMismatch(ns, n, vnode, depth) ==
  /\ n # 0
  /\ isElementVNode(vnode)
  /\ ns[n].kind = "elem"
  /\ \/ depth <= 1 /\ ns[n].tag # vnode.tag
     \/ /\ ns[n].tag = vnode.tag
        /\ \E i \in 1..Len(vnode.kids) :
             /\ i <= Len(ns[n].kids)
             /\ TagMismatch(ns, ns[n].kids[i], vnode.kids[i], depth - 1)

Built == /\ Len(nodes[Container].kids) = 1
         /\ SameShape(nodes, LiveRoot([nodes |-> nodes]), last.vnode)
         /\ SameHandlers(nodes, LiveRoot([nodes |-> nodes]), last.vnode)

\* C17: when hydrate, with no island marker in the container, meets a live
\* element whose tag differs from the desired element's at any depth, the
\* error is caught at the root and logged, the container is cleared, no
\* exception reaches the caller, and the container then holds exactly the
\* desired tree, built from new nodes.
C17_MismatchFallsBack ==
  (/\ last.op = "hydrate" /\ NoIslands
   /\ TagMismatch(prev.nodes, LiveRoot(prev), last.vnode, 1)
        \/ TagMismatch(prev.nodes, LiveRoot(prev), last.vnode, 2))
    => /\ last.err = NoErr
       /\ \E i \in OpsNamed({"error"}), j \in OpsNamed({"clear"}) :
            ops[i].name = "Hydration mismatch" /\ i < j /\ ops[j].node = Container
       /\ Built
       /\ Live(nodes) \cap Live(prev.nodes) = {Container}

\* a mismatch below the root has fallen back to the fresh tree
C17_Witness_DeepMismatch ==
  /\ last.op = "hydrate" /\ NoIslands
  /\ TagMismatch(prev.nodes, LiveRoot(prev), last.vnode, 2)
  /\ Built
  /\ OpsNamed({"clear"}) # {}

\* C18: whatever the container held, when hydrate returns the container
\* holds one tree of the desired shape: the same node kind, tag, text and
\* child count at every position.
C18_HydrateBuildsShape ==
  (last.op = "hydrate" /\ NoIslands)
    => /\ Len(nodes[Container].kids) = 1
       /\ SameShape(nodes, LiveRoot([nodes |-> nodes]), last.vnode)

RECURSIVE HandlerCount(_)
RECURSIVE HandlerCountAll(_)
HandlerCount(vnode) ==
  IF isElementVNode(vnode)
  THEN (IF vnode.props["onClick"] = Undef THEN 0 ELSE 1) + HandlerCountAll(vnode.kids)
  ELSE 0
HandlerCountAll(s) == IF s = <<>> THEN 0 ELSE HandlerCount(Head(s)) + HandlerCountAll(Tail(s))

Matches == NoIslands /\ SameShape(prev.nodes, LiveRoot(prev), last.vnode)

IslandNodes(w) ==
  UNION {{Islands(w, Container)[i]} \cup
           {Descendants(w, Islands(w, Container)[i])[j] :
              j \in 1..Len(Descendants(w, Islands(w, Container)[i]))} :
         i \in 1..Len(Islands(w, Container))}

\* C20: when the container holds island markers, hydrate leaves every live
\* node outside the marked island subtrees attached, with the children, text,
\* class, id and listeners it had.
C20_OutsideIslandsUntouched ==
  (last.op = "hydrate" /\ ~NoIslands)
    => \A n \in Live(prev.nodes) \ IslandNodes(prev) :
         /\ n \in Live(nodes)
         /\ nodes[n].kids = prev.nodes[n].kids
         /\ nodes[n].text = prev.nodes[n].text
         /\ nodes[n].on = prev.nodes[n].on
         /\ nodes[n].className = prev.nodes[n].className
         /\ nodes[n].id = prev.nodes[n].id

(***************************************************************************)
(* Sibling lists in which a key occurs twice (SpecKeyed draws its lists    *)
(* with repetition, so the keyed li may stand twice in the old list).      *)
(***************************************************************************)
\* the old children whose resolution key is that of the i-th new child
SameKeyAs(i) ==
  {j \in 1..Len(OldChildren) : getKey(OldChildren[j], j - 1) = getKey(NewChildren[i], i - 1)}
FirstOccurrence(i) == CHOOSE j \in SameKeyAs(i) : \A k \in SameKeyAs(i) : j <= k

\* C21: when two or more old siblings carry the resolution key of a new
\* child, the new child is matched to the first of them in sibling order:
\* after the pass the node at the new child's position is the live node of
\* the first old occurrence.
C21_FirstOccurrenceWins ==
  (PatchedElement /\ OldListCommitted /\ DistinctKeys(NewChildren) /\ last.err = NoErr)
    => \A i \in 1..Len(NewChildren) :
         Cardinality(SameKeyAs(i)) >= 2
           => nodes[prev.held].kids[i] = OldChildNodes[FirstOccurrence(i)]

(***************************************************************************)
(* One element rendered with one property map and patched with another:    *)
(* styles given as a flat string or as an object, a direct settable field  *)
(* (id), an attribute (data-x) and a handler.                              *)
(***************************************************************************)
DeltaProps ==
  {[NoProps EXCEPT !["style"] = s, !["id"] = i, !["data-x"] = a, !["onClick"] = h] :
     s \in {Undef, "color:blue", "{color:red}", "{color:red;width:1}"},
     i \in {Undef, "x"}, a \in {Undef, "1"}, h \in {Undef, "f1"}}

RenderDelta ==
  /\ last.op = "init"
  /\ \E p \in DeltaProps : RenderFresh(Button(p))

PatchDelta ==
  /\ last.op = "render"
  /\ \E p \in DeltaProps : RenderLinked(Button(p))

NextDelta == RenderDelta \/ PatchDelta
SpecDelta == InitEmpty /\ [][NextDelta]_vars

\* what reconcileProps(e, {}, props) makes of a fresh element e
FreshElement(props) ==
  reconcileProps(createElement(EmptyDoc, "button"), 2, NoProps, props)

ElementState(w, n) ==
  [className |-> w.nodes[n].className, style |-> w.nodes[n].style, id |-> w.nodes[n].id,
   datax |-> w.nodes[n].datax, on |-> w.nodes[n].on, click |-> w.eventListeners[n].click]

\* C22: after reconcileProps(element, old, new) on an element built from
\* old, the element's attributes, direct properties, class, inline style and
\* registered listeners are those of an element freshly built with
\* reconcileProps(e, {}, new).
C22_PatchEqualsFreshBuild ==
  (PatchedElement /\ last.err = NoErr)
    => ElementState([nodes |-> nodes, eventListeners |-> eventListeners], prev.held)
         = ElementState(FreshElement(NewProps), 2)

(***************************************************************************)
(* The order of release and detachment within a pass, read from the log.   *)
(***************************************************************************)
\* the node that the j-th operation of the pass takes out of its parent
DetachedBy(j) ==
  IF ops[j].op = "removeChild" THEN ops[j].other
  ELSE CHOOSE n \in 1..Len(nodes) : ToString(n) = ops[j].name

\* the listeners attached to node s after the first j operations of the pass
RECURSIVE ListenersAt(_, _)
ListenersAt(s, j) ==
  IF j = 0 THEN (IF s <= Len(prev.nodes) THEN prev.nodes[s].on ELSE <<>>)
  ELSE IF ops[j].node = s /\ ops[j].op = "addEventListener"
       THEN (IF InSeq(ops[j].val, ListenersAt(s, j - 1)) THEN ListenersAt(s, j - 1)
             ELSE Append(ListenersAt(s, j - 1), ops[j].val))
  ELSE IF ops[j].node = s /\ ops[j].op = "removeEventListener"
       THEN SeqWithout(ListenersAt(s, j - 1), ops[j].val)
  ELSE ListenersAt(s, j - 1)

Subtree(ns, n) == {Preorder(ns, n)[i] : i \in 1..Len(Preorder(ns, n))}

\* C23: whenever a render or patch pass removes or replaces a live node,
\* no listener is attached any more to a node of its subtree at the moment
\* the node is taken out of its parent.
C23_ListenersGoBeforeDetach ==
  last.op \in {"render", "patch"} =>
    \A j \in OpsNamed({"removeChild", "replaceChild"}) :
      \A s \in Subtree(nodes, DetachedBy(j)) : ListenersAt(s, j - 1) = <<>>

(***************************************************************************)
(* Mounting.  Two instances as their constructors leave them: not mounted, *)
(* no container.  Any caller may call mount (on a mounted instance too)    *)
(* and unmountComponent; the reactive effect renders.  The call of mount   *)
(* is logged before it runs.                                               *)
(***************************************************************************)
Constructed(n, bs) ==
  AsSeq([c \in 1..n |-> Instance(c \in bs, c - 1, IF c < n THEN <<c + 1>> ELSE <<>>)])

InitMount ==
  /\ InitDOM(EmptyDoc)
  /\ inst \in {Constructed(2, bs) : bs \in {{}, {1}}}
  /\ frames = <<>>
  /\ requested = <<FALSE, FALSE>>

CallMount(c) ==
  CommitComp(mount(LogM(Machine, Op("mount", 0, "", "", c)), c, Container), "mount")

CallMountAny == \E c \in DOMAIN inst : CallMount(c)
NextMount == CallMountAny \/ UnmountAny \/ EffectAny \/ ResetAny
SpecMount == InitMount /\ [][NextMount]_vars

\* the positions in the log of the renders, of renderToDOM's commits to the
\* container (it clears the container and appends the new root) and of the
\* 'mounted' hook phase
RenderedAt(log, c) ==
  {i \in OpsIn(log, {"performUpdate"}) : log[i].name = "render" /\ log[i].other = c}
CommittedAt(log) == {i \in OpsIn(log, {"insert"}) : log[i].node = Container}
MountedHookAt(log, c) ==
  {i \in OpsIn(log, {"executeHookPhase"}) : log[i].name = "mounted" /\ log[i].other = c}

\* C24: mount(container) on an instance that is not mounted renders it and
\* commits the output to the container through renderToDOM exactly once,
\* before the 'mounted' hook phase, and leaves _isMounted true; mount on a
\* mounted instance does nothing.
C24_MountRendersOnce ==
  [][last'.op = "mount" =>
       IF inst[ops'[1].other].isMounted
       THEN /\ Len(ops') = 1
            /\ inst' = inst /\ frames' = frames
       ELSE /\ Cardinality(RenderedAt(ops', ops'[1].other)) = 1
            /\ Cardinality(CommittedAt(ops')) = 1
            /\ \A i \in CommittedAt(ops') : \A j \in MountedHookAt(ops', ops'[1].other) : i < j
            /\ MountedHookAt(ops', ops'[1].other) # {}
            /\ inst'[ops'[1].other].isMounted]_vars

(***************************************************************************)
(* The order of release inside cleanupNode, read from the log: the         *)
(* deletion of a node's committed association, and the removal of its      *)
(* listener just before it.                                                *)
(***************************************************************************)
ReleasesOf(n) ==
  {i \in OpsNamed({"delete"}) : ops[i].node = n}
    \cup {i - 1 : i \in {k \in OpsNamed({"delete"}) :
                           /\ ops[k].node = n /\ k > 1
                           /\ ops[k - 1].op = "removeEventListener" /\ ops[k - 1].node = n}}

\* C25: for every node released in a pass, the listeners and the committed
\* association of each of its descendants are released before the node's own.
C25_ReleaseIsPostOrder ==
  \A n \in 1..Len(nodes) :
    \A d \in Subtree(nodes, n) \ {n} :
      \A i \in ReleasesOf(n), j \in ReleasesOf(d) : j < i

(***************************************************************************)
(* Which instance captures a render error (SpecTree: the reactive effect   *)
(* renders one instance of the chain, and its render may throw).           *)
(***************************************************************************)
\* the nearest ancestor of c that is an error boundary and holds no error, or 0
RECURSIVE NearestFree(_, _)
NearestFree(is, c) ==
  IF is[c].parent = 0 THEN 0
  ELSE IF is[is[c].parent].isErrorBoundary /\ is[is[c].parent].error = NoError
       THEN is[c].parent
  ELSE NearestFree(is, is[c].parent)

\* C26: when captureError finds an ancestor that captures the error,
\* exactly one instance's error field goes from null to non-null, the nearest
\* ancestor that is an error boundary and holds no error yet; no other
\* instance's error changes and no global 'swiss-error' event is dispatched.
C26_NearestFreeBoundaryCaptures ==
  [][(last'.op = "effect" /\ OpsIn(ops', {"captureChildError"}) # {})
       => /\ NearestFree(inst, ops'[1].other) # 0
          /\ {d \in DOMAIN inst : inst[d].error = NoError /\ inst'[d].error # NoError}
               = {NearestFree(inst, ops'[1].other)}
          /\ \A d \in DOMAIN inst \ {NearestFree(inst, ops'[1].other)} :
               inst'[d].error = inst[d].error
          /\ OpsIn(ops', {"dispatchEvent"}) = {}]_vars

\* the render of instance 4 threw while the nearest boundary 3 held an error
\* already: the error went past it and past 2, and boundary 1 captured it
C26_Witness_PastHeldBoundary ==
  /\ last.op = "effect"
  /\ ops[1].other = 4
  /\ \E i \in OpsNamed({"captureChildError"}) : ops[i].other = 1
  /\ inst[3].isErrorBoundary /\ inst[3].error # NoError
  /\ ~inst[2].isErrorBoundary
  /\ inst[1].error # NoError

(***************************************************************************)
(* Text nodes during hydration.  In a hydrate pass a text is written by    *)
(* hydrateTextNode alone (a fallback render creates its text nodes).       *)
(***************************************************************************)
\* C27: during hydration the text content of a live node is written only
\* when it differs from the desired string or the node is no text node, and
\* every such write comes with a logged warning about that node.
C27_TextOverwriteIsWarned ==
  last.op = "hydrate" =>
    \A i \in OpsNamed({"setText"}) :
      /\ ops[i].node <= Len(prev.nodes)
      /\ prev.nodes[ops[i].node].kind # "text" \/ prev.nodes[ops[i].node].text # ops[i].val
      /\ \E j \in OpsNamed({"warn"}) : ops[j].node = ops[i].node

(***************************************************************************)
(* Classes.  isErrorBoundary is a static field of the class: the field of  *)
(* the model's instance record is what (this.constructor).isErrorBoundary  *)
(* reads for that instance, so the instances of one class hold the same    *)
(* value.  K and L are two subclasses of SwissComponent that declare no    *)
(* isErrorBoundary of their own; cls is the instance's class and opted     *)
(* tells whether it was constructed with options.errorBoundary = true.     *)
(***************************************************************************)
Classes == {"K", "L"}
MaxBuilt == 4

OfClass(i, cls, opted) == [cls |-> cls, opted |-> opted] @@ i

\* new cls(props, options): options.errorBoundary sets the flag of the class
constructor(m, cls, errorBoundary) ==
  LET static == \E c \in DOMAIN m.inst : m.inst[c].cls = cls /\ m.inst[c].isErrorBoundary
      built == Append(m.inst, OfClass(Instance(static, 0, <<>>), cls, errorBoundary))
  IN LogM([m EXCEPT !.inst = IF errorBoundary
                              THEN AsSeq([c \in 1..Len(built) |->
                                            IF built[c].cls = cls
                                            THEN [built[c] EXCEPT !.isErrorBoundary = TRUE]
                                            ELSE built[c]])
                              ELSE built,
                    !.requested = Append(@, FALSE)],
          Op("new", 0, cls, IF errorBoundary THEN "errorBoundary" ELSE "", Len(m.inst) + 1))

Construct ==
  /\ Len(inst) < MaxBuilt
  /\ \E cls \in Classes, errorBoundary \in BOOLEAN :
       CommitComp(constructor(Machine, cls, errorBoundary), "new")

\* a mounted K with a mounted child L, both constructed without the option
InitClasses ==
  /\ InitDOM(EmptyDoc)
  /\ inst = << OfClass(Chain(2, {})[1], "K", FALSE), OfClass(Chain(2, {})[2], "L", FALSE) >>
  /\ frames = <<>>
  /\ requested = <<FALSE, FALSE>>

NextClasses == Construct \/ EffectAny \/ ResetAny
SpecClasses == InitClasses /\ [][NextClasses]_vars

\* C28: an instance constructed without options.errorBoundary never
\* captures a child error, whatever other instances are constructed with
\* the option: its error field, which captureChildError alone assigns, stays
\* null.
C28_OnlyOptedInstancesCapture ==
  \A c \in DOMAIN inst : inst[c].error # NoError => inst[c].opted

(***************************************************************************)
(* Effect (reactivity/effect.ts).  A cleanup function is named by the      *)
(* execution that registered it and by how: returned by the effect         *)
(* function, or the i-th passed to onCleanup.  eff.cleanup is the field    *)
(* this.cleanup, the functions that a call of it invokes, in order (<<>>   *)
(* for null); eff.registered and eff.invoked record every cleanup ever     *)
(* registered and every invocation.  An execution of the effect function   *)
(* calls onCleanup n times and then returns a function, returns nothing,   *)
(* or throws.                                                              *)
(***************************************************************************)
MaxRuns == 3
MaxOnCleanup == 2
Results == {"function", "void", "throws"}

CleanupId(run, by, i) == [run |-> run, by |-> by, i |-> i]

\* curr.cleanup = () => { if (prevCleanup) prevCleanup(); fn(); }
RECURSIVE onCleanup(_, _)
onCleanup(e, n) ==
  IF n = 0 THEN e
  ELSE [onCleanup(e, n - 1) EXCEPT
          !.cleanup = Append(@, CleanupId(e.runs, "onCleanup", n)),
          !.registered = @ \cup {CleanupId(e.runs, "onCleanup", n)}]

\* this.cleanup(); this.cleanup = null
RunCleanup(e) == [e EXCEPT !.invoked = @ \o e.cleanup, !.cleanup = <<>>]

\* the try block of execute: this.fn(), and the result stored
StoreResult(e, result) ==
  IF result = "function"
  THEN [e EXCEPT !.cleanup = << CleanupId(e.runs, "return", 0) >>,
                 !.registered = @ \cup {CleanupId(e.runs, "return", 0)}]
  ELSE e

execute(e, n, result) ==
  IF e.stage = "DISPOSED" THEN e
  ELSE StoreResult(
         onCleanup([RunCleanup(e) EXCEPT !.stage = "ACTIVE", !.runs = @ + 1], n),
         result)

dispose(e) ==
  IF e.stage = "DISPOSED" THEN e
  ELSE RunCleanup([e EXCEPT !.stage = "DISPOSED"])

\* a step of the reactivity primitives leaves the document and the instances alone
CommitReactive(op) ==
  /\ last' = [op |-> op, vnode |-> NoVNode, err |-> NoErr]
  /\ ops' = <<>>
  /\ UNCHANGED <<nodes, vnodeMetadata, eventListeners, assigned, heldDom, prev,
                 inst, frames, requested>>

\* new Effect(fn), and later the notifications of the signals fn has read
Execute ==
  /\ eff.runs < MaxRuns
  /\ \E n \in 0..MaxOnCleanup, result \in Results : eff' = execute(eff, n, result)
  /\ CommitReactive("execute")
  /\ UNCHANGED reactiveObj

Dispose ==
  /\ eff' = dispose(eff)
  /\ CommitReactive("dispose")
  /\ UNCHANGED reactiveObj

NextEffect == Execute \/ Dispose
SpecEffect == InitEmpty /\ [][NextEffect]_vars

Invocations(e, id) == Cardinality({i \in 1..Len(e.invoked) : e.invoked[i] = id})

\* every cleanup of an execution that is over (a later execution has begun,
\* or the effect is disposed) has been invoked once, the others not yet
CleanupsSettled(e) ==
  \A id \in e.registered :
    Invocations(e, id) = IF id.run < e.runs \/ e.stage = "DISPOSED" THEN 1 ELSE 0

\* C29: every cleanup registered during one execution of the effect
\* function, returned or passed to onCleanup, is invoked exactly once, before
\* the next execution or at dispose(); after dispose() the function is not
\* executed again and a second dispose() does nothing.
C29_CleanupsRunOnce ==
  [][/\ CleanupsSettled(eff')
     /\ eff.stage = "DISPOSED" => eff' = eff]_vars

(***************************************************************************)
(* reactive and watch (reactivity/reactive.ts).  reactiveObj.p is the      *)
(* watched property; a listener is the closure that watch builds, with the *)
(* value it captured (currentValue) and the name of its callback;          *)
(* reactiveObj.called holds the callback invocations of the last           *)
(* assignment, in order.                                                   *)
(***************************************************************************)
Values == {"a", "b", "c"}
MaxWatchers == 2

\* const currentValue = reactiveObj[prop]; __listeners.get(prop).add(listener)
watch(r) ==
  [r EXCEPT !.listeners = Append(@, [cb |-> r.watchers + 1, currentValue |-> r.p]),
            !.watchers = @ + 1]

\* the function watch returns
unsubscribe(r, cb) ==
  [r EXCEPT !.listeners = SelectSeq(@, LAMBDA l : l.cb # cb)]

\* listener(): callback(reactiveObj[prop], currentValue), for every listener
notifyListeners(r) ==
  [r EXCEPT !.called = AsSeq([i \in 1..Len(r.listeners) |->
                                [cb |-> r.listeners[i].cb, newValue |-> r.p,
                                 oldValue |-> r.listeners[i].currentValue]])]

\* the set trap of the proxy
set(r, value) ==
  IF r.p # value
  THEN notifyListeners([r EXCEPT !.p = value, !.called = <<>>])
  ELSE [r EXCEPT !.p = value, !.called = <<>>]

Watch ==
  /\ reactiveObj.watchers < MaxWatchers
  /\ reactiveObj' = watch(reactiveObj)
  /\ CommitReactive("watch")
  /\ UNCHANGED eff

Unsubscribe ==
  /\ \E i \in 1..Len(reactiveObj.listeners) :
       reactiveObj' = unsubscribe(reactiveObj, reactiveObj.listeners[i].cb)
  /\ CommitReactive("unsubscribe")
  /\ UNCHANGED eff

Assign ==
  /\ \E value \in Values : reactiveObj' = set(reactiveObj, value)
  /\ CommitReactive("set")
  /\ UNCHANGED eff

NextWatch == Watch \/ Unsubscribe \/ Assign
SpecWatch == InitEmpty /\ [][NextWatch]_vars

Subscribed(r) == {r.listeners[i].cb : i \in 1..Len(r.listeners)}
CallsOf(r, cb) == {i \in 1..Len(r.called) : r.called[i].cb = cb}

\* C30: every assignment to p that changes its value invokes the callback
\* of each subscribed watcher exactly once, with the value just assigned and
\* the value p held immediately before the assignment; an assignment of the
\* same value invokes no callback, and the callback of a watcher that has
\* unsubscribed is not invoked.
C30_WatcherSeesEachChange ==
  [][last'.op = "set" =>
       /\ reactiveObj'.p = reactiveObj.p => reactiveObj'.called = <<>>
       /\ reactiveObj'.p # reactiveObj.p =>
            \A cb \in Subscribed(reactiveObj) :
              /\ Cardinality(CallsOf(reactiveObj', cb)) = 1
              /\ \A i \in CallsOf(reactiveObj', cb) :
                   /\ reactiveObj'.called[i].newValue = reactiveObj'.p
                   /\ reactiveObj'.called[i].oldValue = reactiveObj.p
       /\ \A i \in 1..Len(reactiveObj'.called) :
            reactiveObj'.called[i].cb \in Subscribed(reactiveObj)]_vars

====
